---- MODULE Spec2Model ----
(***************************************************************************)
(* tknote animation engine: WidgetAnimation (the per-animation stepper of  *)
(* src/tknote/animation/widget_animation.py) and AnimationManager (the     *)
(* tick-driven scheduler of src/tknote/animation/animation_manager.py).    *)
(*                                                                         *)
(* Python's float is IEEE-754 binary64.  The stepper divides, adds and     *)
(* truncates floats, and whether a carry happens in a given frame depends  *)
(* on the rounding of those operations, so floats are modelled bit-exactly *)
(* (53-bit significand, round-to-nearest-even).  Significands do not fit   *)
(* the model checker's integers, so naturals are little-endian sequences   *)
(* of limbs in base 2^15.                                                  *)
(***************************************************************************)
EXTENDS Integers, Sequences, FiniteSets, TLC

(***************************************************************************)
(* Arbitrary-precision naturals: <<>> is 0, limb 1 is the least            *)
(* significant, the last limb is never 0.                                  *)
(***************************************************************************)
LimbBits == 15

Base == 32768

Abs(n) == IF n < 0 THEN -n ELSE n

Min2(a, b) == IF a <= b THEN a ELSE b

Max2(a, b) == IF a >= b THEN a ELSE b

\* 2^n for 0 <= n <= LimbBits
Pow2Table == <<1, 2, 4, 8, 16, 32, 64, 128, 256, 512, 1024, 2048, 4096, 8192,
               16384, 32768>>

Pow2(n) == Pow2Table[n + 1]

RECURSIVE NatFromInt(_)
NatFromInt(n) == IF n = 0 THEN <<>> ELSE <<n % Base>> \o NatFromInt(n \div Base)

RECURSIVE NatToInt(_)
NatToInt(a) == IF a = <<>> THEN 0 ELSE Head(a) + Base * NatToInt(Tail(a))

RECURSIVE NatTrim(_)
NatTrim(a) ==
    IF a = <<>> THEN <<>>
    ELSE IF a[Len(a)] = 0 THEN NatTrim(SubSeq(a, 1, Len(a) - 1))
    ELSE a

Limb(a, i) == IF i <= Len(a) THEN a[i] ELSE 0

RECURSIVE NatAddC(_, _, _, _)
NatAddC(a, b, i, c) ==
    IF i > Len(a) /\ i > Len(b)
    THEN (IF c = 0 THEN <<>> ELSE <<c>>)
    ELSE LET s == Limb(a, i) + Limb(b, i) + c
         IN  <<s % Base>> \o NatAddC(a, b, i + 1, s \div Base)

NatAdd(a, b) == NatAddC(a, b, 1, 0)

\* a - b for a >= b
RECURSIVE NatSubB(_, _, _, _)
NatSubB(a, b, i, br) ==
    IF i > Len(a) THEN <<>>
    ELSE LET d == Limb(a, i) - Limb(b, i) - br
         IN  IF d < 0 THEN <<d + Base>> \o NatSubB(a, b, i + 1, 1)
             ELSE <<d>> \o NatSubB(a, b, i + 1, 0)

NatSub(a, b) == NatTrim(NatSubB(a, b, 1, 0))

\* -1, 0, 1 as a < b, a = b, a > b; i runs from the most significant limb
RECURSIVE NatCmpAt(_, _, _)
NatCmpAt(a, b, i) ==
    IF i = 0 THEN 0
    ELSE IF a[i] < b[i] THEN -1
    ELSE IF a[i] > b[i] THEN 1
    ELSE NatCmpAt(a, b, i - 1)

NatCmp(a, b) ==
    IF Len(a) < Len(b) THEN -1
    ELSE IF Len(a) > Len(b) THEN 1
    ELSE NatCmpAt(a, b, Len(a))

\* a * k + c for 0 <= k < Base
RECURSIVE NatMulSmallC(_, _, _, _)
NatMulSmallC(a, k, i, c) ==
    IF i > Len(a)
    THEN (IF c = 0 THEN <<>> ELSE <<c>>)
    ELSE LET p == a[i] * k + c
         IN  <<p % Base>> \o NatMulSmallC(a, k, i + 1, p \div Base)

NatMulSmall(a, k) == NatTrim(NatMulSmallC(a, k, 1, 0))

\* quotient and remainder of a by k, 0 < k <= Base; i runs from the top limb
RECURSIVE NatDivSmallAt(_, _, _, _)
NatDivSmallAt(a, k, i, r) ==
    IF i = 0 THEN [q |-> <<>>, r |-> r]
    ELSE LET cur == r * Base + a[i]
             rest == NatDivSmallAt(a, k, i - 1, cur % k)
         IN  [q |-> rest.q \o <<cur \div k>>, r |-> rest.r]

NatDivSmall(a, k) ==
    LET res == NatDivSmallAt(a, k, Len(a), 0)
    IN  [q |-> NatTrim(res.q), r |-> res.r]

RECURSIVE Zeros(_)
Zeros(n) == IF n = 0 THEN <<>> ELSE <<0>> \o Zeros(n - 1)

NatShl(a, n) ==
    IF a = <<>> THEN <<>>
    ELSE Zeros(n \div LimbBits) \o NatMulSmall(a, Pow2(n % LimbBits))

RECURSIVE AnyNonZero(_, _)
AnyNonZero(a, n) ==
    IF n = 0 THEN FALSE ELSE a[n] # 0 \/ AnyNonZero(a, n - 1)

\* a shifted right by n bits, and whether a nonzero bit was shifted out
NatShr(a, n) ==
    LET w == n \div LimbBits
    IN  IF w >= Len(a) THEN [q |-> <<>>, sticky |-> a # <<>>]
        ELSE LET d == NatDivSmall(SubSeq(a, w + 1, Len(a)), Pow2(n % LimbBits))
             IN  [q |-> d.q, sticky |-> d.r # 0 \/ AnyNonZero(a, w)]

\* the number of bits of a limb
IntBitLen(n) == Cardinality({i \in 1..(LimbBits + 1) : Pow2Table[i] <= n})

NatBitLen(a) ==
    IF a = <<>> THEN 0 ELSE (Len(a) - 1) * LimbBits + IntBitLen(a[Len(a)])

NatOdd(a) == a # <<>> /\ a[1] % 2 = 1

(***************************************************************************)
(* IEEE-754 binary64 values, as Python's float: [s, m, e] stands for       *)
(* (-1)^s * m * 2^e with 2^52 <= m < 2^53, and zero is FZero (the sign of  *)
(* a zero is not observable in this program).  Exponent range limits are   *)
(* not modelled: every value the stepper computes from screen coordinates, *)
(* a frame rate and a duration is far inside the normal range.             *)
(***************************************************************************)
MantBits == 53

FZero == [s |-> 0, m |-> <<>>, e |-> 0]

FIsZero(f) == f.m = <<>>

\* the float nearest to (-1)^s * (M + t) * 2^e, where 0 <= t < 1 and
\* t > 0 iff sticky; ties go to the even significand.  When M has d bits too
\* many, t is M without its d - 1 lowest bits: the lowest bit of t is the
\* guard bit, the others are kept and rounded up or not, and a carry out of
\* the top drops one more bit (a zero).
FRound(s, M, e, sticky) ==
    LET bl == NatBitLen(M)
        Norm(r, d) ==
            IF NatBitLen(r) > MantBits
            THEN [s |-> s, m |-> NatDivSmall(r, 2).q, e |-> e + d + 1]
            ELSE [s |-> s, m |-> r, e |-> e + d]
        Up(kept, guard, rest) ==
            IF guard /\ (rest \/ NatOdd(kept)) THEN NatAdd(kept, <<1>>)
            ELSE kept
        Cut(t, d) ==
            Norm(Up(NatDivSmall(t.q, 2).q, NatOdd(t.q), t.sticky \/ sticky), d)
    IN  IF M = <<>> THEN FZero
        ELSE IF bl <= MantBits
        THEN [s |-> s, m |-> NatShl(M, MantBits - bl), e |-> e - (MantBits - bl)]
        ELSE Cut(NatShr(M, bl - MantBits - 1), bl - MantBits)

\* float(n)
FFromInt(n) == FRound(IF n < 0 THEN 1 ELSE 0, NatFromInt(Abs(n)), 0, FALSE)

FNeg(a) == IF FIsZero(a) THEN a ELSE [a EXCEPT !.s = 1 - a.s]

FAbs(a) == [a EXCEPT !.s = 0]

\* a + b: the significands are aligned to the smaller exponent and added,
\* or the smaller is subtracted from the larger, whose sign the result takes
FAdd(a, b) ==
    LET e == Min2(a.e, b.e)
        Sum(Ma, Mb, c) ==
            FRound(IF a.s = b.s \/ c >= 0 THEN a.s ELSE b.s,
                   IF a.s = b.s THEN NatAdd(Ma, Mb)
                   ELSE IF c >= 0 THEN NatSub(Ma, Mb)
                   ELSE NatSub(Mb, Ma),
                   e, FALSE)
        Aligned(Ma, Mb) == Sum(Ma, Mb, NatCmp(Ma, Mb))
    IN  IF FIsZero(a) THEN b
        ELSE IF FIsZero(b) THEN a
        ELSE Aligned(NatShl(a.m, a.e - e), NatShl(b.m, b.e - e))

\* a - b
FSub(a, b) == FAdd(a, FNeg(b))

\* -1, 0, 1 as a < b, a = b, a > b
FSign(a) == IF FIsZero(a) THEN 0 ELSE IF a.s = 1 THEN -1 ELSE 1

FCmpMag(a, b) ==
    IF a.e < b.e THEN -1 ELSE IF a.e > b.e THEN 1 ELSE NatCmp(a.m, b.m)

FCmp(a, b) ==
    IF FSign(a) # FSign(b) THEN (IF FSign(a) < FSign(b) THEN -1 ELSE 1)
    ELSE IF FSign(a) = 0 THEN 0
    ELSE FSign(a) * FCmpMag(a, b)

\* a > b
FGt(a, b) == FCmp(a, b) > 0

\* a >= b
FGe(a, b) == FCmp(a, b) >= 0

\* a * b
RECURSIVE NatMulAt(_, _, _)
NatMulAt(a, b, i) ==
    IF i > Len(b) THEN <<>>
    ELSE NatAdd(NatMulSmall(a, b[i]), <<0>> \o NatMulAt(a, b, i + 1))

NatMul(a, b) == NatTrim(NatMulAt(a, b, 1))

FMul(a, b) ==
    IF FIsZero(a) \/ FIsZero(b) THEN FZero
    ELSE FRound((a.s + b.s) % 2, NatMul(a.m, b.m), a.e + b.e, FALSE)

\* Long division in base 2^15 (Knuth's algorithm D) of a remainder st.r < d
\* by d, whose top limb is at least Base / 2: the remainder is shifted up
\* by one limb and the next quotient limb is appended to st.q.  The limb
\* estimated from the top limbs is at most 2 too large.
DivStep(st, d) ==
    LET r == <<0>> \o st.r
        n == Len(d)
        est == Min2((Limb(r, n + 1) * Base + Limb(r, n)) \div d[n], Base - 1)
        q == IF NatCmp(NatMulSmall(d, est), NatTrim(r)) <= 0 THEN est
             ELSE IF NatCmp(NatMulSmall(d, est - 1), NatTrim(r)) <= 0 THEN est - 1
             ELSE est - 2
    IN  [r |-> NatSub(r, NatMulSmall(d, q)), q |-> <<q>> \o st.q]

\* quotient limbs computed below the point: the quotient of two 53-bit
\* significands then has at least 60 bits, enough for a 53-bit significand,
\* a guard bit and a sticky flag
DivLimbs == 4

\* the shift that brings a 53-bit significand to 4 full limbs
DivNorm == 7

\* a / b for b # 0
FDiv(a, b) ==
    LET Quot(st) ==
            FRound((a.s + b.s) % 2, NatTrim(st.q),
                   a.e - b.e - DivLimbs * LimbBits, st.r # <<>>)
        Div(n, d) ==
            Quot(DivStep(DivStep(DivStep(DivStep(
                 IF NatCmp(n, d) >= 0 THEN [r |-> NatSub(n, d), q |-> <<1>>]
                 ELSE [r |-> n, q |-> <<0>>], d), d), d), d))
    IN  IF FIsZero(a) THEN FZero
        ELSE Div(NatShl(a.m, DivNorm), NatShl(b.m, DivNorm))

\* int(a): truncation toward zero
FTrunc(a) ==
    IF FIsZero(a) THEN 0
    ELSE (IF a.s = 1 THEN -1 ELSE 1) *
         (IF a.e >= 0 THEN NatToInt(NatShl(a.m, a.e))
          ELSE NatToInt(NatShr(a.m, -a.e).q))

\* a == n for an integer n
FEqInt(a, n) == a = FFromInt(n)

(***************************************************************************)
(* Inputs of the model.                                                    *)
(***************************************************************************)
\* frame rates 1..MaxFps
MaxFps == 2

\* travel of -MaxDist..MaxDist pixels on each axis
MaxDist == 2

\* calls of next() made on an animation after it first raised StopIteration
MaxStops == 2

DurationSet == {500, 1000, 1500, 2000}

BeginSet == {<<0, 0>>, <<3, -2>>}

\* (target_fps, duration) pairs that the spec calls invalid but that the
\* constructor accepts like any other
InvalidTimings == {<<0, 1000>>, <<-1, 1000>>, <<1, 0>>, <<2, -1000>>}

Timings == ((1..MaxFps) \X DurationSet) \cup InvalidTimings

MaxDuration == CHOOSE d \in DurationSet : \A e \in DurationSet : e <= d

\* no valid animation of the model produces this many frames: the timeout
\* stops it after floor((duration + 1000) * target_fps / 1000) + 1 frames
FrameCap == ((MaxDuration + 1000) * MaxFps) \div 1000 + 2

ParentWidget == 0

\* (final_x, final_y, target_fps, duration) of the scheduled animations, all
\* starting at (0, 0): one that lands in its first frame, one that lands in
\* its second, one that is advanced for three frames and then stopped by the
\* timeout, and one of duration 0
SchedShapes ==
    {<<0, 1, 1, 1000>>, <<0, 2, 1, 2000>>, <<-1, 0, 1, 1500>>, <<0, 1, 1, 0>>}

\* the timings and travels the model uses
TimingDomain == Timings \cup {<<sh[3], sh[4]>> : sh \in SchedShapes}

DistDomain == -MaxDist..MaxDist


(***************************************************************************)
(* utils.clip_value                                                        *)
(***************************************************************************)
\* clip_value returning val as it is, whatever the bounds
clip_value_unclipped(val, min_val, max_val) == [exc |-> "", val |-> val]

\* clip_value without the test of its bounds
clip_value_bounds_unchecked(val, min_val, max_val) ==
    IF val <= min_val THEN [exc |-> "", val |-> min_val]
    ELSE IF val >= max_val THEN [exc |-> "", val |-> max_val]
    ELSE [exc |-> "", val |-> val]

\* clip_value returning the lower bound for a value at or above the upper
clip_value_wrapping(val, min_val, max_val) ==
    IF min_val > max_val THEN [exc |-> "ValueError", val |-> 0]
    ELSE [exc |-> "", val |-> IF val < max_val /\ val > min_val THEN val
                               ELSE min_val]

clip_value(val, min_val, max_val) ==
    IF min_val > max_val THEN [exc |-> "ValueError", val |-> 0]
    ELSE IF val <= min_val THEN [exc |-> "", val |-> min_val]
    ELSE IF val >= max_val THEN [exc |-> "", val |-> max_val]
    ELSE [exc |-> "", val |-> val]

\* a caller of clip_value: its arguments are integers of -MaxClip..MaxClip
MaxClip == 2

ClipRange == -MaxClip..MaxClip

NotCalled == [exc |-> "none", val |-> 0]

VARIABLES
    clip_val, clip_min, clip_max,   \* the arguments of the caller
    clip_out,                       \* what clip_value did with them
    clip_again                      \* ... and with its result, same bounds

cvars == <<clip_val, clip_min, clip_max, clip_out, clip_again>>

\* no caller of clip_value on its own
CInit ==
    /\ clip_val = 0
    /\ clip_min = 0
    /\ clip_max = 0
    /\ clip_out = NotCalled
    /\ clip_again = NotCalled

\* a caller about to clip some value by some bounds
CallerInit ==
    /\ clip_val \in ClipRange
    /\ clip_min \in ClipRange
    /\ clip_max \in ClipRange
    /\ clip_out = NotCalled
    /\ clip_again = NotCalled

\* clip_value(val, min_val, max_val)
Clip ==
    /\ clip_out = NotCalled
    /\ clip_out' = clip_value(clip_val, clip_min, clip_max)
    /\ UNCHANGED <<clip_val, clip_min, clip_max, clip_again>>

\* the value returned clipped once more by the same bounds
ClipAgain ==
    /\ clip_out.exc = ""
    /\ clip_again = NotCalled
    /\ clip_again' = clip_value(clip_out.val, clip_min, clip_max)
    /\ UNCHANGED <<clip_val, clip_min, clip_max, clip_out>>

(***************************************************************************)
(* WidgetAnimation                                                         *)
(***************************************************************************)
WidgetAnimation(widget, parent_widget, begin_x, begin_y, final_x, final_y, target_fps, duration) ==
    [widget |-> widget, parent_widget |-> parent_widget,
     begin_x |-> begin_x, begin_y |-> begin_y,
     final_x |-> final_x, final_y |-> final_y,
     target_fps |-> target_fps, duration |-> duration,
     _x |-> begin_x, _y |-> begin_y,
     _frame_number |-> 0, _elapsed |-> FZero,
     _x_pixel_overflow |-> FZero, _y_pixel_overflow |-> FZero]

\* completed holding only once a frame has been produced
completed_after_frame(a) ==
    a._frame_number > 0 /\ a._x = a.final_x /\ a._y = a.final_y

completed(a) == a._x = a.final_x /\ a._y = a.final_y

\* The properties that depend on the constructor arguments only are
\* evaluated once for the arguments the model uses (@@ makes the table
\* explicit) and looked up afterwards.
F1 == FFromInt(1)

F1000 == FFromInt(1000)

FrameTime(target_fps) == FDiv(F1000, FFromInt(target_fps))

FrameTimeMemo ==
    [t \in {t \in TimingDomain : t[1] # 0} |-> FrameTime(t[1])] @@ <<>>

_frame_time_in_msec(a) == FrameTimeMemo[<<a.target_fps, a.duration>>]

_x_dist(a) == a.final_x - a.begin_x

\* the distance of the y axis taken from the x axis
_y_dist_from_x(a) == a.final_x - a.begin_x

_y_dist(a) == a.final_y - a.begin_y

TotalFrames(duration, target_fps) ==
    FMul(FDiv(FFromInt(duration), F1000), FFromInt(target_fps))

TotalFramesMemo ==
    [t \in TimingDomain |-> TotalFrames(t[2], t[1])] @@ <<>>

_total_frames(a) == TotalFramesMemo[<<a.target_fps, a.duration>>]

\* dist / _total_frames, for _total_frames # 0
FloatDelta(dist, duration, target_fps) ==
    FDiv(FFromInt(dist), TotalFrames(duration, target_fps))

FloatDeltaMemo ==
    [k \in DistDomain \X {t \in TimingDomain : ~FIsZero(TotalFramesMemo[t])} |->
        FloatDelta(k[1], k[2][2], k[2][1])] @@ <<>>

_x_float_delta(a) == FloatDeltaMemo[<<_x_dist(a), <<a.target_fps, a.duration>>>>]

_y_float_delta(a) == FloatDeltaMemo[<<_y_dist(a), <<a.target_fps, a.duration>>>>]

\* the property returns the pixels and leaves the new overflow in the object
_x_frame_delta(a) ==
    LET Carried(pixels, ov, p) ==
            [pixels |-> pixels + p, overflow |-> FSub(ov, FFromInt(p))]
        Carry(pixels, ov) ==
            IF FGe(ov, F1) THEN Carried(pixels, ov, FTrunc(ov))
            ELSE [pixels |-> pixels, overflow |-> ov]
        Added(fd, pixels) ==
            Carry(pixels, FAdd(a._x_pixel_overflow, FSub(fd, FFromInt(pixels))))
        Delta(fd) == Added(fd, FTrunc(fd))
    IN  Delta(_x_float_delta(a))

_y_frame_delta(a) ==
    LET Carried(pixels, ov, p) ==
            [pixels |-> pixels + p, overflow |-> FSub(ov, FFromInt(p))]
        Carry(pixels, ov) ==
            IF FGe(FAbs(ov), F1) THEN Carried(pixels, ov, FTrunc(ov))
            ELSE [pixels |-> pixels, overflow |-> ov]
        Added(fd, pixels) ==
            Carry(pixels, FAdd(a._y_pixel_overflow, FSub(fd, FFromInt(pixels))))
        Delta(fd) == Added(fd, FTrunc(fd))
    IN  Delta(_y_float_delta(a))

NoFrame == [widget |-> 0]

\* the frame with final_frame taken from the x axis alone
AnimationFrame_x_only(a) ==
    [widget |-> a.widget, parent_widget |-> a.parent_widget,
     x |-> a._x, y |-> a._y, final_x |-> a.final_x, final_y |-> a.final_y,
     target_fps |-> a.target_fps, duration |-> a.duration,
     elapsed |-> a._elapsed, frame_number |-> a._frame_number,
     final_frame |-> a._x = a.final_x]

AnimationFrame(a) ==
    [widget |-> a.widget, parent_widget |-> a.parent_widget,
     x |-> a._x, y |-> a._y, final_x |-> a.final_x, final_y |-> a.final_y,
     target_fps |-> a.target_fps, duration |-> a.duration,
     elapsed |-> a._elapsed, frame_number |-> a._frame_number,
     final_frame |-> completed(a)]

\* a send() that raises StopIteration and clears the overflow accumulators
StopIteration_overflow_cleared(a) ==
    [anim |-> [a EXCEPT !._x_pixel_overflow = FZero,
                        !._y_pixel_overflow = FZero],
     out |-> "StopIteration", frame |-> NoFrame]

\* the outcome of a send() that raises StopIteration: nothing is changed
StopIteration(a) == [anim |-> a, out |-> "StopIteration", frame |-> NoFrame]

\* the failure guard with two seconds of slack instead of one
timed_out_late(a) == FGt(a._elapsed, FFromInt(a.duration + 2000))

\* the failure guard of send()
timed_out(a) == FGt(a._elapsed, FFromInt(a.duration + 1000))

\* the rest of send(): the position is moved and clipped, x first, the
\* counters are advanced and the frame is built; an exception raised on the
\* way leaves what was assigned before it
next_frame(a) ==
    LET Returned(b) == [anim |-> b, out |-> "frame", frame |-> AnimationFrame(b)]
        Moved(xd, yd, cx, cy) ==
            IF cx.exc # ""
            THEN [anim |-> [a EXCEPT !._x_pixel_overflow = xd.overflow],
                  out |-> cx.exc, frame |-> NoFrame]
            ELSE IF cy.exc # ""
            THEN [anim |-> [a EXCEPT !._x = cx.val,
                                     !._x_pixel_overflow = xd.overflow,
                                     !._y_pixel_overflow = yd.overflow],
                  out |-> cy.exc, frame |-> NoFrame]
            ELSE Returned([a EXCEPT
                     !._x = cx.val, !._y = cy.val,
                     !._x_pixel_overflow = xd.overflow,
                     !._y_pixel_overflow = yd.overflow,
                     !._frame_number = a._frame_number + 1,
                     !._elapsed = FAdd(a._elapsed, _frame_time_in_msec(a))])
        Stepped(xd, yd) ==
            Moved(xd, yd,
                  clip_value(a._x + xd.pixels, Min2(a.begin_x, a.final_x),
                             Max2(a.begin_x, a.final_x)),
                  clip_value(a._y + yd.pixels, Min2(a.begin_y, a.final_y),
                             Max2(a.begin_y, a.final_y)))
    IN  IF FIsZero(_total_frames(a))
        THEN [anim |-> a, out |-> "ZeroDivisionError", frame |-> NoFrame]
        ELSE Stepped(_x_frame_delta(a), _y_frame_delta(a))

\* send() without its first check, that of completed
send_unchecked(a) == IF timed_out(a) THEN StopIteration(a) ELSE next_frame(a)

\* send(): the animation after the call, what the call did ("frame" for a
\* returned AnimationFrame, else the exception raised) and the frame
send(a) ==
    IF completed(a) THEN StopIteration(a)
    ELSE IF timed_out(a) THEN StopIteration(a)
    ELSE next_frame(a)

(***************************************************************************)
(* One animation driven by a caller: it is constructed once and then       *)
(* next() is called on it again and again, also after it has finished.     *)
(***************************************************************************)
VARIABLES
    pc,         \* "new" before the constructor has run, "live" after
    anim,       \* the WidgetAnimation object
    prev,       \* the object as it was before the last next() call
    out,        \* what the last next() call did: "frame" or the exception
    frame,      \* the last AnimationFrame returned
    produced,   \* AnimationFrames returned so far
    nonfinal,   \* of which had final_frame false
    stops       \* next() calls so far that raised

avars == <<pc, anim, prev, out, frame, produced, nonfinal, stops>>

NoAnim == WidgetAnimation(0, 0, 0, 0, 0, 0, 0, 0)

AInit ==
    /\ pc = "new"
    /\ anim = NoAnim
    /\ prev = NoAnim
    /\ out = "none"
    /\ frame = NoFrame
    /\ produced = 0
    /\ nonfinal = 0
    /\ stops = 0

\* WidgetAnimation(...): any coordinates, frame rate and duration are accepted
Construct(b, dx, dy, t) ==
    /\ pc = "new"
    /\ pc' = "live"
    /\ anim' = WidgetAnimation(1, ParentWidget, b[1], b[2], b[1] + dx, b[2] + dy,
                               t[1], t[2])
    /\ prev' = anim'
    /\ UNCHANGED <<out, frame, produced, nonfinal, stops>>

\* next(animation), which is send(None)
Advance ==
    /\ pc = "live"
    /\ stops < MaxStops
    /\ anim._frame_number < FrameCap
    /\ \E r \in {send(anim)} :
           /\ anim' = r.anim
           /\ prev' = anim
           /\ out' = r.out
           /\ frame' = IF r.out = "frame" THEN r.frame ELSE frame
           /\ produced' = IF r.out = "frame" THEN produced + 1 ELSE produced
           /\ nonfinal' = IF r.out = "frame" /\ ~r.frame.final_frame
                          THEN nonfinal + 1 ELSE nonfinal
           /\ stops' = IF r.out = "frame" THEN stops ELSE stops + 1
    /\ UNCHANGED pc

(***************************************************************************)
(* AnimationManager, driven by the host: the tkinter event loop fires the  *)
(* pending after() callback (a tick), callers register drain callbacks and *)
(* schedule batches of animations, and the user destroys widgets.          *)
(***************************************************************************)
\* animations scheduled in one run, by callers and by drain callbacks, in
\* one schedule_animations() call or in several
MaxAnims == 2

\* widgets destroyed in one run
MaxDestroys == 1

Callbacks == {"cbA", "cbB"}

\* add_callback() calls a caller makes with the same callback
MaxRegs == 2

NoneFired == [cb \in Callbacks |-> 0]

SchedAnim(w, sh) ==
    WidgetAnimation(w, ParentWidget, 0, 0, sh[1], sh[2], sh[3], sh[4])

\* a batch moves widgets 1..n, one animation each, as AnimatedList builds it
Batches ==
    UNION {{[w \in 1..n |-> SchedAnim(w, shs[w])] : shs \in [1..n -> SchedShapes]} :
              n \in 1..MaxAnims}

SchedWidgets == 1..MaxAnims

AllWidgets == SchedWidgets \cup {ParentWidget}

\* next(animation), as _run calls it, is send(None).  For the animations the
\* callers of the model build in batches, send() is evaluated once for every
\* state they go through (@@ makes the table explicit) and looked up.
RECURSIVE Orbit(_, _)
Orbit(a, n) ==
    LET After(r) == IF r.out = "frame" /\ n > 0
                    THEN {<<a, r>>} \cup Orbit(r.anim, n - 1) ELSE {<<a, r>>}
    IN  After(send(a))

SendMemo ==
    LET Table(pairs) ==
            [a \in {p[1] : p \in pairs} |->
                (CHOOSE p \in pairs : p[1] = a)[2]] @@ <<>>
    IN  Table(UNION {Orbit(SchedAnim(w, sh), FrameCap) :
                        w \in SchedWidgets, sh \in SchedShapes})

next(a) ==
    LET Look(memo) == IF a \in DOMAIN memo THEN memo[a] ELSE send(a)
    IN  Look(SendMemo)

VARIABLES
    mgr,                    \* "new" before AnimationManager(app), then "up"
    scheduled_animations,   \* deque, leftmost first
    running_animations,     \* deque, leftmost first
    _animation_in_progress,
    _callbacks,             \* set of registered callbacks
    timers,                 \* _run callbacks pending in the host (app.after)
    alive,                  \* widgets that exist in the host surface
    collected,              \* frames collected by the last tick, in order
    placed,                 \* frames the last tick placed, in order
    path,                   \* branch the last tick took
    escaped,                \* exception that left the last tick, or ""
    fired,                  \* how often the last tick called each callback
    nsched,                 \* animations scheduled so far
    found                   \* scheduled_animations as the last tick found it

svars == <<mgr, scheduled_animations, running_animations,
           _animation_in_progress, _callbacks, timers, alive, collected,
           placed, path, escaped, fired, nsched, found>>

SInit ==
    /\ mgr = "new"
    /\ scheduled_animations = <<>>
    /\ running_animations = <<>>
    /\ _animation_in_progress = FALSE
    /\ _callbacks = {}
    /\ timers = 0
    /\ alive = AllWidgets
    /\ collected = <<>>
    /\ placed = <<>>
    /\ path = "none"
    /\ escaped = ""
    /\ fired = NoneFired
    /\ nsched = 0
    /\ found = <<>>

\* what the callers of add_callback() and the host have seen so far
VARIABLES
    nreg,                   \* add_callback() calls made with each callback
    ndrain                  \* ticks that drained the queue

rvars == <<nreg, ndrain>>

\* the callbacks that raise an exception when they are called
VARIABLES raising

fvars == <<raising>>

FInit == raising = {}

RInit ==
    /\ nreg = [cb \in Callbacks |-> 0]
    /\ ndrain = 0

\* the first loop with finished animations requeued like the others
RECURSIVE CollectFrames_keep_finished(_, _, _)
CollectFrames_keep_finished(sched, running, frames) ==
    LET Advanced(r) ==
            IF r.out = "frame"
            THEN CollectFrames_keep_finished(Tail(sched), Append(running, r.anim),
                                             Append(frames, r.frame))
            ELSE IF r.out = "StopIteration"
            THEN CollectFrames_keep_finished(Tail(sched), Append(running, r.anim),
                                             frames)
            ELSE [sched |-> Tail(sched), running |-> running,
                  frames |-> frames, exc |-> r.out]
    IN  IF sched = <<>>
        THEN [sched |-> sched, running |-> running, frames |-> frames,
              exc |-> ""]
        ELSE Advanced(next(Head(sched)))

\* the first loop of _run: every queued animation is popped and advanced;
\* an exception other than StopIteration leaves the loop and _run
\* the first loop with cancellation: an animation whose widget has been
\* destroyed is dropped without being advanced
RECURSIVE CollectFrames_cancelling(_, _, _)
CollectFrames_cancelling(sched, running, frames) ==
    LET Advanced(r) ==
            IF r.out = "frame"
            THEN CollectFrames_cancelling(Tail(sched), Append(running, r.anim),
                                          Append(frames, r.frame))
            ELSE IF r.out = "StopIteration"
            THEN CollectFrames_cancelling(Tail(sched), running, frames)
            ELSE [sched |-> Tail(sched), running |-> running,
                  frames |-> frames, exc |-> r.out]
    IN  IF sched = <<>>
        THEN [sched |-> sched, running |-> running, frames |-> frames,
              exc |-> ""]
        ELSE IF Head(sched).widget \notin alive
        THEN CollectFrames_cancelling(Tail(sched), running, frames)
        ELSE Advanced(next(Head(sched)))

\* the first loop not requeueing an animation whose frame is its final one
RECURSIVE CollectFrames_final_dropped(_, _, _)
CollectFrames_final_dropped(sched, running, frames) ==
    LET Advanced(r) ==
            IF r.out = "frame"
            THEN CollectFrames_final_dropped(
                     Tail(sched),
                     IF r.frame.final_frame THEN running
                     ELSE Append(running, r.anim),
                     Append(frames, r.frame))
            ELSE IF r.out = "StopIteration"
            THEN CollectFrames_final_dropped(Tail(sched), running, frames)
            ELSE [sched |-> Tail(sched), running |-> running,
                  frames |-> frames, exc |-> r.out]
    IN  IF sched = <<>>
        THEN [sched |-> sched, running |-> running, frames |-> frames,
              exc |-> ""]
        ELSE Advanced(next(Head(sched)))

RECURSIVE CollectFrames(_, _, _)
CollectFrames(sched, running, frames) ==
    LET Advanced(r) ==
            IF r.out = "frame"
            THEN CollectFrames(Tail(sched), Append(running, r.anim),
                               Append(frames, r.frame))
            ELSE IF r.out = "StopIteration"
            THEN CollectFrames(Tail(sched), running, frames)
            ELSE [sched |-> Tail(sched), running |-> running,
                  frames |-> frames, exc |-> r.out]
    IN  IF sched = <<>>
        THEN [sched |-> sched, running |-> running, frames |-> frames,
              exc |-> ""]
        ELSE Advanced(next(Head(sched)))

\* the second loop with running_animations emptied from the left: the
\* animations come back in reverse order
RECURSIVE Requeue_reversed(_, _)
Requeue_reversed(sched, running) ==
    IF running = <<>> THEN sched
    ELSE Requeue_reversed(<<Head(running)>> \o sched, Tail(running))

\* the second loop of _run: running_animations is emptied from the right
\* onto the left of scheduled_animations
RECURSIVE Requeue(_, _)
Requeue(sched, running) ==
    IF running = <<>> THEN sched
    ELSE Requeue(<<running[Len(running)]>> \o sched,
                 SubSeq(running, 1, Len(running) - 1))

\* widget.place(in_=parent_widget, ...) raises tk.TclError when the widget
\* or the container has been destroyed
PlaceFails(f, live) == f.widget \notin live \/ f.parent_widget \notin live

\* the third loop of _run with the tk.TclError left uncaught: the first
\* frame that cannot be placed ends the loop and the tick
RECURSIVE PlaceFrames_uncaught(_, _)
PlaceFrames_uncaught(frames, live) ==
    IF frames = <<>> THEN [placed |-> <<>>, exc |-> ""]
    ELSE IF PlaceFails(Head(frames), live)
    THEN [placed |-> <<>>, exc |-> "TclError"]
    ELSE LET rest == PlaceFrames_uncaught(Tail(frames), live)
         IN  [placed |-> <<Head(frames)>> \o rest.placed, exc |-> rest.exc]

\* the third loop of _run: the frames that get placed, in order; a
\* tk.TclError is caught and the loop continues with the next frame
RECURSIVE PlaceFrames(_, _)
PlaceFrames(frames, live) ==
    IF frames = <<>> THEN [placed |-> <<>>, exc |-> ""]
    ELSE LET rest == PlaceFrames(Tail(frames), live)
         IN  IF PlaceFails(Head(frames), live) THEN rest
             ELSE [placed |-> <<Head(frames)>> \o rest.placed, exc |-> rest.exc]

\* _callbacks kept as a list: a callback is called once for every
\* add_callback() made with it
_execute_callbacks_per_registration(cbs) ==
    [cb \in Callbacks |-> IF cb \in cbs THEN nreg[cb] ELSE 0]

\* _execute_callbacks: every registered callback is called once; the
\* result counts the calls
_execute_callbacks(cbs) ==
    [cb \in Callbacks |-> IF cb \in cbs THEN 1 ELSE 0]

\* _execute_callbacks when callbacks may raise: the for loop calls the
\* callbacks in the order `order` in which the set yields them, and the
\* first exception leaves the loop
RECURSIVE CallInOrder(_, _)
CallInOrder(order, bad) ==
    IF order = <<>> THEN [fired |-> NoneFired, exc |-> ""]
    ELSE IF Head(order) \in bad
    THEN [fired |-> [NoneFired EXCEPT ![Head(order)] = 1],
          exc |-> "CallbackError"]
    ELSE LET After(r) == [r EXCEPT !.fired[Head(order)] = @ + 1]
         IN  After(CallInOrder(Tail(order), bad))

\* the orders in which iterating a set may yield its elements
Orders(S) ==
    {o \in [1..Cardinality(S) -> S] : \A cb \in S : \E i \in DOMAIN o : o[i] = cb}

\* _run, entered with `pending` other _run callbacks waiting in the host
\* and the widgets `live` on the surface, as a function of the manager's
\* fields.  resched is what the drain callbacks pass to
\* schedule_animations() while they run inside the tick (<<>> when they
\* schedule nothing).  The result holds the new fields, the number of
\* pending host callbacks, and what the tick did.  The three branches:

\* the idle branch calling the drain callbacks as well
_run_idle_firing(self, pending) ==
    [scheduled_animations |-> <<>>,
     running_animations |-> self.running_animations,
     _animation_in_progress |-> FALSE,
     fired |-> _execute_callbacks(self._callbacks),
     timers |-> pending + 1,
     collected |-> <<>>, placed |-> <<>>,
     path |-> "idle", escaped |-> ""]

\* nothing queued and no animation in progress
_run_idle(self, pending) ==
    [scheduled_animations |-> <<>>,
     running_animations |-> self.running_animations,
     _animation_in_progress |-> FALSE,
     fired |-> NoneFired,
     timers |-> pending + 1,
     collected |-> <<>>, placed |-> <<>>,
     path |-> "idle", escaped |-> ""]

\* the drain branch with the flag left set
_run_drain_flag_kept(self, pending, resched) ==
    [scheduled_animations |-> IF self._callbacks # {} THEN resched ELSE <<>>,
     running_animations |-> self.running_animations,
     _animation_in_progress |-> TRUE,
     fired |-> _execute_callbacks(self._callbacks),
     timers |-> pending + 1,
     collected |-> <<>>, placed |-> <<>>,
     path |-> "drain", escaped |-> ""]

\* nothing queued after animations were in progress: the flag is cleared
\* and the callbacks are executed
_run_drain(self, pending, resched) ==
    [scheduled_animations |-> IF self._callbacks # {} THEN resched ELSE <<>>,
     running_animations |-> self.running_animations,
     _animation_in_progress |-> FALSE,
     fired |-> _execute_callbacks(self._callbacks),
     timers |-> pending + 1,
     collected |-> <<>>, placed |-> <<>>,
     path |-> "drain", escaped |-> ""]

\* the drain branch when callbacks may raise (and schedule nothing): an
\* exception of a callback leaves _run before app.after() is reached
_run_drain_raising(self, pending, order, bad) ==
    LET Called(r) ==
            [scheduled_animations |-> <<>>,
             running_animations |-> self.running_animations,
             _animation_in_progress |-> FALSE,
             fired |-> r.fired,
             timers |-> IF r.exc = "" THEN pending + 1 ELSE pending,
             collected |-> <<>>, placed |-> <<>>,
             path |-> "drain", escaped |-> r.exc]
    IN  Called(CallInOrder(order, bad))

\* animations queued: they are advanced, requeued and their frames placed;
\* an exception that leaves a loop leaves _run before app.after() is reached
_run_busy(self, pending, live) ==
    LET Placed(c, p) ==
            [scheduled_animations |-> Requeue(c.sched, c.running),
             running_animations |-> <<>>,
             _animation_in_progress |-> TRUE,
             fired |-> NoneFired,
             timers |-> IF p.exc = "" THEN pending + 1 ELSE pending,
             collected |-> c.frames, placed |-> p.placed,
             path |-> "busy", escaped |-> p.exc]
        Collected(c) ==
            IF c.exc # ""
            THEN [scheduled_animations |-> c.sched,
                  running_animations |-> c.running,
                  _animation_in_progress |-> TRUE,
                  fired |-> NoneFired,
                  timers |-> pending,
                  collected |-> c.frames, placed |-> <<>>,
                  path |-> "busy", escaped |-> c.exc]
            ELSE Placed(c, PlaceFrames(c.frames, live))
    IN  Collected(CollectFrames(self.scheduled_animations,
                                self.running_animations, <<>>))

_run(self, pending, live, resched) ==
    IF self.scheduled_animations = <<>>
    THEN IF self._animation_in_progress
         THEN _run_drain(self, pending, resched)
         ELSE _run_idle(self, pending)
    ELSE _run_busy(self, pending, live)

\* the manager's fields
Self ==
    [scheduled_animations |-> scheduled_animations,
     running_animations |-> running_animations,
     _animation_in_progress |-> _animation_in_progress,
     _callbacks |-> _callbacks]

\* one call of _run and its effect on the manager and the host
RunTick(pending, resched) ==
    \E r \in {_run(Self, pending, alive, resched)} :
        /\ scheduled_animations' = r.scheduled_animations
        /\ running_animations' = r.running_animations
        /\ _animation_in_progress' = r._animation_in_progress
        /\ fired' = r.fired
        /\ timers' = r.timers
        /\ collected' = r.collected
        /\ placed' = r.placed
        /\ path' = r.path
        /\ escaped' = r.escaped
        /\ nsched' = nsched + Len(resched)
        /\ found' = scheduled_animations

\* AnimationManager(app_root): the constructor runs the first tick itself
NewManager ==
    /\ mgr = "new"
    /\ mgr' = "up"
    /\ RunTick(0, <<>>)
    /\ UNCHANGED <<_callbacks, alive>>

add_callback(cb) ==
    /\ mgr = "up"
    /\ _callbacks' = _callbacks \cup {cb}
    /\ UNCHANGED <<mgr, scheduled_animations, running_animations,
                   _animation_in_progress, timers, alive, collected, placed,
                   path, escaped, fired, nsched, found>>

schedule_animations(animations) ==
    /\ mgr = "up"
    /\ nsched + Len(animations) <= MaxAnims
    /\ nsched' = nsched + Len(animations)
    /\ scheduled_animations' = scheduled_animations \o animations
    /\ UNCHANGED <<mgr, running_animations, _animation_in_progress, _callbacks,
                   timers, alive, collected, placed, path, escaped, fired,
                   found>>

\* the user deletes a widget (or the container) while animations are queued
Destroy(w) ==
    /\ mgr = "up"
    /\ scheduled_animations # <<>>
    /\ Cardinality(alive) > Cardinality(SchedWidgets) + 1 - MaxDestroys
    /\ w \in alive
    /\ alive' = alive \ {w}
    /\ UNCHANGED <<mgr, scheduled_animations, running_animations,
                   _animation_in_progress, _callbacks, timers, collected,
                   placed, path, escaped, fired, nsched, found>>

\* what the drain callbacks of the coming tick may schedule: a callback may
\* call schedule_animations() when it runs, which a tick does only when it
\* finds the queue empty after a busy period
Rescheds ==
    IF /\ scheduled_animations = <<>>
       /\ _animation_in_progress
       /\ _callbacks # {}
    THEN {<<>>} \cup {b \in Batches : nsched + Len(b) <= MaxAnims}
    ELSE {<<>>}

\* the event loop fires a pending after() callback that finds the queue
\* drained while some registered callback is one that raises
RaisingTick ==
    /\ timers > 0
    /\ scheduled_animations = <<>>
    /\ _animation_in_progress
    /\ _callbacks \cap raising # {}
    /\ \E order \in Orders(_callbacks) :
         \E r \in {_run_drain_raising(Self, timers - 1, order, raising)} :
           /\ scheduled_animations' = r.scheduled_animations
           /\ running_animations' = r.running_animations
           /\ _animation_in_progress' = r._animation_in_progress
           /\ fired' = r.fired
           /\ timers' = r.timers
           /\ collected' = r.collected
           /\ placed' = r.placed
           /\ path' = r.path
           /\ escaped' = r.escaped
           /\ found' = scheduled_animations
    /\ UNCHANGED <<mgr, _callbacks, alive, nsched>>

\* the event loop fires a pending after() callback
Tick ==
    /\ mgr = "up"
    /\ timers > 0
    /\ \E resched \in Rescheds : RunTick(timers - 1, resched)
    /\ UNCHANGED <<mgr, _callbacks, alive>>

(***************************************************************************)
(* Specifications                                                          *)
(***************************************************************************)
vars == <<avars, svars, rvars, cvars, fvars>>

Init == AInit /\ SInit /\ RInit /\ CInit /\ FInit

\* one animation and its caller
Next ==
    \/ /\ \E b \in BeginSet, dx \in -MaxDist..MaxDist, dy \in -MaxDist..MaxDist,
             t \in Timings : Construct(b, dx, dy, t)
       /\ UNCHANGED <<svars, rvars, cvars, fvars>>
    \/ /\ Advance
       /\ UNCHANGED <<svars, rvars, cvars, fvars>>

Spec == Init /\ [][Next]_vars

\* the scheduler, its callers and the host
SchedNext ==
    \/ /\ NewManager
       /\ UNCHANGED <<avars, rvars, cvars, fvars>>
    \/ /\ \E cb \in Callbacks : add_callback(cb)
       /\ UNCHANGED <<avars, rvars, cvars, fvars>>
    \/ /\ \E b \in Batches : schedule_animations(b)
       /\ UNCHANGED <<avars, rvars, cvars, fvars>>
    \/ /\ \E w \in AllWidgets : Destroy(w)
       /\ UNCHANGED <<avars, rvars, cvars, fvars>>
    \/ /\ Tick
       /\ UNCHANGED <<avars, rvars, cvars, fvars>>

SchedSpec == Init /\ [][SchedNext]_vars

\* the scheduler and its callers with every widget left alive (destroying a
\* widget changes what a tick places and nothing else)
LiveNext ==
    \/ /\ NewManager
       /\ UNCHANGED <<avars, rvars, cvars, fvars>>
    \/ /\ \E cb \in Callbacks : add_callback(cb)
       /\ UNCHANGED <<avars, rvars, cvars, fvars>>
    \/ /\ \E b \in Batches : schedule_animations(b)
       /\ UNCHANGED <<avars, rvars, cvars, fvars>>
    \/ /\ Tick
       /\ UNCHANGED <<avars, rvars, cvars, fvars>>

\* ... with a host whose event loop keeps running: a pending after()
\* callback is fired eventually
FairSchedSpec ==
    /\ Init
    /\ [][LiveNext]_vars
    /\ WF_vars(Tick /\ UNCHANGED <<avars, rvars, cvars, fvars>>)

\* a caller hands one animation of any shape, valid or not, to the manager
ScheduleOne(b, dx, dy, t) ==
    /\ nsched = 0
    /\ schedule_animations(<<WidgetAnimation(1, ParentWidget, b[1], b[2],
                                              b[1] + dx, b[2] + dy, t[1], t[2])>>)

\* a tick while no queued animation has produced FrameCap frames: an
\* animation with a negative frame rate is never stopped by the timeout
DriveTick ==
    /\ \A i \in DOMAIN scheduled_animations :
           scheduled_animations[i]._frame_number < FrameCap
    /\ Tick

\* the scheduler driving one animation of any shape, and what its drain
\* callbacks schedule after it
DriveNext ==
    \/ /\ NewManager
       /\ UNCHANGED <<avars, rvars, cvars, fvars>>
    \/ /\ \E cb \in Callbacks : add_callback(cb)
       /\ UNCHANGED <<avars, rvars, cvars, fvars>>
    \/ /\ \E b \in BeginSet, dx \in -MaxDist..MaxDist, dy \in -MaxDist..MaxDist,
             t \in Timings : ScheduleOne(b, dx, dy, t)
       /\ UNCHANGED <<avars, rvars, cvars, fvars>>
    \/ /\ DriveTick
       /\ UNCHANGED <<avars, rvars, cvars, fvars>>

DriveSpec == Init /\ [][DriveNext]_vars

\* a caller registers a drain callback, for the first time or again
Register(cb) ==
    /\ nreg[cb] < MaxRegs
    /\ add_callback(cb)
    /\ nreg' = [nreg EXCEPT ![cb] = @ + 1]
    /\ UNCHANGED ndrain

\* a tick, counted when it is the one that drains the queue
CountedTick ==
    /\ Tick
    /\ ndrain' = IF path' = "drain" THEN ndrain + 1 ELSE ndrain
    /\ UNCHANGED nreg

\* the scheduler with every add_callback() call and every drain counted
RegNext ==
    \/ /\ NewManager
       /\ UNCHANGED <<avars, rvars, cvars, fvars>>
    \/ /\ \E cb \in Callbacks : Register(cb)
       /\ UNCHANGED <<avars, cvars, fvars>>
    \/ /\ \E b \in Batches : schedule_animations(b)
       /\ UNCHANGED <<avars, rvars, cvars, fvars>>
    \/ /\ CountedTick
       /\ UNCHANGED <<avars, cvars, fvars>>

RegSpec == Init /\ [][RegNext]_vars

\* a caller registers a callback that raises when it is called
RegisterRaising(cb) ==
    /\ add_callback(cb)
    /\ raising' = raising \cup {cb}

\* a tick, whatever the callbacks it calls do
HostTick ==
    \/ /\ ~(/\ scheduled_animations = <<>>
             /\ _animation_in_progress
             /\ _callbacks \cap raising # {})
       /\ Tick
    \/ RaisingTick

\* the scheduler with callbacks that may raise
FaultNext ==
    \/ /\ NewManager
       /\ UNCHANGED <<avars, rvars, cvars, fvars>>
    \/ /\ \E cb \in Callbacks : add_callback(cb)
       /\ UNCHANGED <<avars, rvars, cvars, fvars>>
    \/ /\ \E cb \in Callbacks : RegisterRaising(cb)
       /\ UNCHANGED <<avars, rvars, cvars>>
    \/ /\ \E b \in Batches : schedule_animations(b)
       /\ UNCHANGED <<avars, rvars, cvars, fvars>>
    \/ /\ HostTick
       /\ UNCHANGED <<avars, rvars, cvars, fvars>>

FaultSpec == Init /\ [][FaultNext]_vars

\* clip_value and a caller of it
ClipNext ==
    \/ /\ Clip
       /\ UNCHANGED <<avars, svars, rvars, fvars>>
    \/ /\ ClipAgain
       /\ UNCHANGED <<avars, svars, rvars, fvars>>

ClipInit == AInit /\ SInit /\ RInit /\ CallerInit /\ FInit

ClipSpec == ClipInit /\ [][ClipNext]_vars

Valid(a) == a.target_fps > 0 /\ a.duration > 0

\* begin # final on at least one axis
Moving(a) == a.begin_x # a.final_x \/ a.begin_y # a.final_y

\* the caller has advanced the animation until it raised StopIteration
Exhausted == pc = "live" /\ out = "StopIteration"

InRange(v, b, f) == Min2(b, f) <= v /\ v <= Max2(b, f)

\* floor(duration / 1000 * target_fps)
NominalFrames(a) == (a.duration * a.target_fps) \div 1000

\* C1: Convergence.  When a valid animation with begin # final on some axis
\* has been advanced until StopIteration, the last frame it produced has
\* x = final_x, y = final_y and final_frame true.
C1_Convergence ==
    (Exhausted /\ Valid(anim) /\ Moving(anim)) =>
        /\ produced > 0
        /\ frame.x = anim.final_x
        /\ frame.y = anim.final_y
        /\ frame.final_frame

\* C2: Boundedness.  In every state of an animation, and in every frame it
\* has produced, x lies between begin_x and final_x and y between begin_y
\* and final_y.
C2_Bounded ==
    pc = "live" =>
        /\ InRange(anim._x, anim.begin_x, anim.final_x)
        /\ InRange(anim._y, anim.begin_y, anim.final_y)
        /\ produced > 0 =>
               /\ InRange(frame.x, anim.begin_x, anim.final_x)
               /\ InRange(frame.y, anim.begin_y, anim.final_y)

\* a frame was produced by a step whose x or y delta led out of the range,
\* so that clip_value had to cut the position back
C2_Clipped ==
    /\ pc = "live"
    /\ out = "frame"
    /\ frame.frame_number = prev._frame_number + 1
    /\ \/ ~InRange(prev._x + _x_frame_delta(prev).pixels,
                   prev.begin_x, prev.final_x)
       \/ ~InRange(prev._y + _y_frame_delta(prev).pixels,
                   prev.begin_y, prev.final_y)

\* C6: Every call of send() returns one AnimationFrame or raises
\* StopIteration, and raises nothing else, in every state of the animation.
C6_FrameOrStop == out \in {"none", "frame", "StopIteration"}

\* C7: Completed is absorbing.  Once _x = final_x and _y = final_y, every
\* later call of send() raises StopIteration and produces no frame, and the
\* animation stays at its target.
C7_CompletedAbsorbing ==
    [][(pc = "live" /\ anim._x = anim.final_x /\ anim._y = anim.final_y) =>
           /\ out' = "StopIteration"
           /\ produced' = produced
           /\ frame' = frame
           /\ anim'._x = anim'.final_x
           /\ anim'._y = anim'.final_y]_avars

\* an animation that moved to its target was called MaxStops more times
C7_CalledAfterCompleted ==
    /\ pc = "live"
    /\ produced > 0
    /\ frame.final_frame
    /\ anim._x = anim.final_x
    /\ anim._y = anim.final_y
    /\ stops = MaxStops

\* C8: Construction with target_fps <= 0 or duration <= 0 fails, so no
\* animation with such a frame rate or duration ever exists.
C8_ConstructionValidated == pc = "live" => Valid(anim)

\* C9: Frame count.  When a valid animation with begin # final has been
\* advanced until StopIteration, the number of frames it produced with
\* final_frame false is floor(duration / 1000 * target_fps), give or take 1.
C9_FrameCount ==
    (Exhausted /\ Valid(anim) /\ Moving(anim)) =>
        /\ nonfinal >= NominalFrames(anim) - 1
        /\ nonfinal <= NominalFrames(anim) + 1

\* C10: Nominal end.  When a valid animation with begin # final whose
\* nominal frame count N = duration / 1000 * target_fps is whole has been
\* advanced until StopIteration, its last frame has frame_number = N and
\* elapsed = duration.
C10_NominalEnd ==
    (/\ Exhausted /\ Valid(anim) /\ Moving(anim)
     /\ (anim.duration * anim.target_fps) % 1000 = 0) =>
        /\ produced > 0
        /\ frame.frame_number = NominalFrames(anim)
        /\ FEqInt(frame.elapsed, anim.duration)

(***************************************************************************)
(* Properties of the scheduler, checked under SchedSpec.                   *)
(***************************************************************************)
\* a step in which the host runs _run, the constructor's call or a tick,
\* and the run changes something; it neither registers a callback nor
\* destroys a widget, and it records the queue it found
RunStep ==
    /\ UNCHANGED <<_callbacks, alive>>
    /\ found' = scheduled_animations
    /\ svars' # svars
    /\ NewManager \/ Tick

\* the exceptions send() can raise besides StopIteration
AdvanceErrors == {"ZeroDivisionError", "ValueError"}

\* the frames of a sequence that can be placed on the surface
Placeable(frames, live) ==
    LET Test(f) == ~PlaceFails(f, live) IN SelectSeq(frames, Test)

\* C3: Failure isolation.  In a tick that collects frames, whichever of them
\* cannot be placed because the widget or the container is gone, all the
\* others are placed in that tick, in order, no exception leaves the tick,
\* and the queue kept for the next tick is the one the tick would keep with
\* every widget alive.
C3_PlacementIsolation ==
    [][(path' = "busy" /\ escaped' \notin AdvanceErrors /\ RunStep) =>
           /\ placed' = Placeable(collected', alive)
           /\ escaped' = ""
           /\ scheduled_animations' =
                  _run_busy(Self, timers - 1, AllWidgets).scheduled_animations
           /\ running_animations' = <<>>]_svars

\* a tick collected several frames, the first could not be placed and all
\* the others were
C3_OneFailedOthersPlaced ==
    /\ path = "busy"
    /\ escaped = ""
    /\ Len(collected) >= 2
    /\ PlaceFails(collected[1], alive)
    /\ placed = Tail(collected)

\* C4: Drain exactly once per busy period.  A run of _run calls each
\* registered callback exactly once when it takes the scheduler from busy to
\* idle and calls no callback otherwise; in particular a tick that finds the
\* queue empty after a tick that found it empty calls none.
C4_DrainOnce ==
    [][RunStep =>
           /\ \A cb \in Callbacks :
                  fired'[cb] = IF /\ _animation_in_progress
                                  /\ ~_animation_in_progress'
                                  /\ cb \in _callbacks
                               THEN 1 ELSE 0
           /\ (path \in {"idle", "drain"} /\ scheduled_animations = <<>>) =>
                  fired' = NoneFired]_svars

\* a drain with every callback registered, after all the animations of the
\* run have been scheduled
C4_Drained ==
    /\ path = "drain"
    /\ _callbacks = Callbacks
    /\ \A cb \in Callbacks : fired[cb] = 1
    /\ ~_animation_in_progress
    /\ nsched = MaxAnims

\* C5: Perpetual tick.  From the construction of the manager on, exactly one
\* _run callback is pending in the host at any time.
C5_PerpetualTick == mgr = "up" => timers = 1

(***************************************************************************)
(* Properties of animations in the scheduler, checked under DriveSpec.     *)
(***************************************************************************)
Range(s) == {s[i] : i \in DOMAIN s}

\* floor((duration + 1000) * target_fps / 1000) + 1
FrameBound(a) == ((a.duration + 1000) * a.target_fps) \div 1000 + 1

\* the animations before position i of queue q all return a frame or raise
\* StopIteration, so that the first loop of _run gets to position i
Due(q, i) == \A j \in 1..(i - 1) : next(q[j]).out \notin AdvanceErrors

\* the positions of q whose animation returns a frame when advanced
FramePositions(q) == {j \in DOMAIN q : next(q[j]).out = "frame"}

\* C11: Timeout termination.  A valid animation in the scheduler has
\* produced at most floor((duration + 1000) * target_fps / 1000) + 1 frames,
\* and once it has produced that many its next send() raises StopIteration.
\* send() raises StopIteration whenever _elapsed > duration + 1000, and the
\* tick that advances such an animation keeps only the animations that
\* returned a frame, calls no callback, arranges the next tick, and lets no
\* exception out unless a later animation of the queue raised one.
C11_TimeoutTermination ==
    /\ [](\A a \in Range(scheduled_animations) \cup Range(running_animations) :
             Valid(a) =>
                 /\ a._frame_number <= FrameBound(a)
                 /\ a._frame_number = FrameBound(a) =>
                        send(a) = StopIteration(a))
    /\ [][RunStep =>
             \A i \in DOMAIN scheduled_animations :
                 (/\ Valid(scheduled_animations[i])
                  /\ timed_out(scheduled_animations[i])
                  /\ Due(scheduled_animations, i)) =>
                     /\ send(scheduled_animations[i]) =
                            StopIteration(scheduled_animations[i])
                     /\ Len(scheduled_animations') + Len(running_animations')
                            <= Cardinality(FramePositions(scheduled_animations))
                     /\ Len(collected')
                            <= Cardinality(FramePositions(scheduled_animations))
                     /\ fired' = NoneFired
                     /\ \/ escaped' = "" /\ timers' = 1
                        \/ \E j \in (i + 1)..Len(scheduled_animations) :
                               send(scheduled_animations[j]).out = escaped']_svars

\* the last tick found a valid animation that never reached its target and
\* had produced all the frames the timeout allows, and dropped it
C11_TimedOutDropped ==
    /\ path = "busy"
    /\ escaped = ""
    /\ scheduled_animations = <<>>
    /\ collected = <<>>
    /\ timers = 1
    /\ \E a \in Range(found) :
           /\ Valid(a)
           /\ ~completed(a)
           /\ timed_out(a)
           /\ a._frame_number = FrameBound(a)

\* C12: No-op animation.  An animation with begin_x = final_x and
\* begin_y = final_y is completed from construction and its send() raises
\* StopIteration without producing a frame.  The tick that advances it goes
\* the busy way and sets _animation_in_progress, keeps only animations that
\* returned a frame, collects and places a frame for those only and calls no
\* callback.  When a tick found nothing but such animations and nothing is
\* scheduled before the next tick, that tick calls every registered callback
\* once and clears the flag, and the tick after it calls none.
C12_NoOpAnimation ==
    /\ [](\A a \in Range(scheduled_animations) :
             ~Moving(a) =>
                 /\ completed(a)
                 /\ a._frame_number = 0
                 /\ send(a) = StopIteration(a))
    /\ [][RunStep =>
             /\ \A i \in DOMAIN scheduled_animations :
                    (~Moving(scheduled_animations[i])
                         /\ Due(scheduled_animations, i)) =>
                        /\ path' = "busy"
                        /\ _animation_in_progress'
                        /\ fired' = NoneFired
                        /\ Len(scheduled_animations') + Len(running_animations')
                               <= Cardinality(FramePositions(scheduled_animations))
                        /\ Len(collected')
                               <= Cardinality(FramePositions(scheduled_animations))
                        /\ Len(placed') <= Len(collected')
             /\ (/\ path = "busy"
                 /\ found # <<>>
                 /\ \A a \in Range(found) : ~Moving(a)
                 /\ scheduled_animations = <<>>) =>
                    /\ path' = "drain"
                    /\ fired' = _execute_callbacks(_callbacks)
                    /\ ~_animation_in_progress'
             /\ (path = "drain" /\ scheduled_animations = <<>>) =>
                    fired' = NoneFired /\ path' = "idle"]_svars

\* the first tick after a no-op animation was scheduled has removed it,
\* collected and placed nothing and left the scheduler busy, with every
\* callback registered
C12_NoOpRemoved ==
    /\ path = "busy"
    /\ Len(found) = 1
    /\ ~Moving(found[1])
    /\ found[1]._frame_number = 0
    /\ scheduled_animations = <<>>
    /\ collected = <<>>
    /\ placed = <<>>
    /\ _animation_in_progress
    /\ _callbacks = Callbacks
    /\ timers = 1

(***************************************************************************)
(* Properties of the queue discipline, checked under SchedSpec.            *)
(***************************************************************************)
\* what next() does with each animation of queue q
Outcomes(q) == [i \in DOMAIN q |-> next(q[i])] @@ <<>>

\* the position of the first of the outcomes o that is an error,
\* Len(o) + 1 when there is none
FirstError(o) ==
    LET Least(E) == IF E = {} THEN Len(o) + 1
                    ELSE CHOOSE j \in E : \A l \in E : j <= l
    IN  Least({j \in DOMAIN o : o[j].out \in AdvanceErrors})

\* the outcomes among the first n of o that are frames, in order
Producing(o, n) ==
    LET Test(r) == r.out = "frame" IN SelectSeq(SubSeq(o, 1, n), Test)

\* the animations that returned these frames, after their step
Survivors(o, n) ==
    LET Kept(k) == [i \in DOMAIN k |-> k[i].anim] IN Kept(Producing(o, n))

\* the frames themselves
Frames(o, n) ==
    LET Got(k) == [i \in DOMAIN k |-> k[i].frame] IN Got(Producing(o, n))

\* no animation that has not been advanced yet is ahead of one that has
AdvancedFirst(q) ==
    \A i \in DOMAIN q : \A j \in DOMAIN q :
        (i < j /\ q[i]._frame_number = 0) => q[j]._frame_number = 0

\* the queue after a tick that found queue q with outcomes o and first
\* error at k: in-flight animations first
KeptInOrder(running, q, o, k) ==
    running \o Survivors(o, k - 1) \o SubSeq(q, k + 1, Len(q))

\* C13: FIFO order.  A tick collects the frames in the order of the queue
\* and places them in that order; the animations it keeps are, in the order
\* they had in the queue, those that returned a frame (when an animation
\* raised an error: those before it, then the ones behind it untouched);
\* schedule_animations() appends behind everything queued.  So an animation
\* that has not been advanced yet is never ahead of one that has.
C13_FifoOrder ==
    /\ [](AdvancedFirst(running_animations \o scheduled_animations))
    /\ [][(RunStep /\ scheduled_animations # <<>>) =>
             \E o \in {Outcomes(scheduled_animations)} :
               \E k \in {FirstError(o)} :
                 /\ collected' = Frames(o, k - 1)
                 /\ placed' = IF k > Len(o)
                              THEN Placeable(collected', alive) ELSE <<>>
                 /\ running_animations' \o scheduled_animations' =
                        KeptInOrder(running_animations, scheduled_animations,
                                    o, k)]_svars
    /\ [][(\E b \in Batches : schedule_animations(b)) =>
             SubSeq(scheduled_animations', 1, Len(scheduled_animations))
                 = scheduled_animations]_svars

\* a tick found an animation it had advanced before ahead of one scheduled
\* later, collected and placed their frames in that order and kept the two
\* in that order
C13_SurvivorStaysAhead ==
    /\ path = "busy"
    /\ escaped = ""
    /\ Len(found) = 2
    /\ found[1]._frame_number > 0
    /\ found[2]._frame_number = 0
    /\ Len(collected) = 2
    /\ placed = collected
    /\ collected[1].frame_number = found[1]._frame_number + 1
    /\ collected[2].frame_number = 1
    /\ Len(scheduled_animations) = 2
    /\ scheduled_animations[1]._frame_number = collected[1].frame_number
    /\ scheduled_animations[2]._frame_number = 1

\* C15: Scheduled animations are advanced in the next tick.
\* schedule_animations() keeps what is queued and adds every animation it
\* is given, and so does a call made by a drain callback inside a tick; the
\* next tick takes the busy branch, sets _animation_in_progress and advances
\* every queued animation once: the frames it collects and the animations
\* it keeps are those of the whole queue.
C15_AdvancedNextTick ==
    /\ [][\A b \in Batches :
              schedule_animations(b) =>
                  scheduled_animations' = scheduled_animations \o b]_svars
    /\ [][(RunStep /\ path' = "drain") =>
             \E b \in Rescheds : scheduled_animations' = b]_svars
    /\ [][(RunStep /\ scheduled_animations # <<>>) =>
             \E o \in {Outcomes(scheduled_animations)} :
                 /\ path' = "busy"
                 /\ _animation_in_progress'
                 /\ collected' = Frames(o, Len(o))
                 /\ running_animations' \o scheduled_animations' =
                        running_animations \o Survivors(o, Len(o))]_svars

\* C16: One step per tick.  A busy tick advances every animation it finds
\* queued exactly once: the queue it leaves holds exactly the animations that
\* returned a frame, each one step further, in-flight nowhere else; it
\* collects exactly their frames; and the animations it drops are exactly
\* those that raised StopIteration.
C16_OneStepPerTick ==
    [][(RunStep /\ scheduled_animations # <<>>) =>
          \E o \in {Outcomes(scheduled_animations)} :
              /\ scheduled_animations' = Survivors(o, Len(o))
              /\ running_animations' = <<>>
              /\ collected' = Frames(o, Len(o))
              /\ Len(scheduled_animations) - Len(scheduled_animations') =
                     Cardinality({j \in DOMAIN o :
                                     o[j].out = "StopIteration"})]_svars

\* C17: Bad-animation isolation.  In a tick in which next() of some queued
\* animation raises an error other than StopIteration, no exception leaves
\* the tick, the frames of the other animations are collected and placed,
\* the animations that returned a frame stay queued, and the next tick is
\* arranged.
C17_BadAnimationIsolated ==
    [][(RunStep /\ scheduled_animations # <<>>) =>
          \E o \in {Outcomes(scheduled_animations)} :
              FirstError(o) <= Len(o) =>
                  /\ escaped' = ""
                  /\ collected' = Frames(o, Len(o))
                  /\ placed' = Placeable(Frames(o, Len(o)), alive)
                  /\ scheduled_animations' = Survivors(o, Len(o))
                  /\ running_animations' = <<>>
                  /\ timers' = 1]_svars

\* an animation that has returned a frame already
InFlight(a) == a._frame_number > 0

\* C19: No cancellation.  Destroying a widget changes neither queue, the
\* pending tick nor the flag.  A tick advances every in-flight animation it
\* gets to, whether its widget exists or not: the animation is dropped
\* exactly when next() raises StopIteration, which it does exactly when the
\* target is reached or the timeout has passed; otherwise it returns a frame,
\* the frame is collected, the animation stays queued one step further at
\* its place among the survivors, and the frame is left out of what is
\* placed exactly when it cannot be placed, with no tk.TclError leaving the
\* tick.  An in-flight animation the tick does not get to stays queued as
\* it is, and the tick keeps nothing but the survivors and those.
C19_NoCancellation ==
    /\ [][(\E w \in AllWidgets : Destroy(w)) =>
             UNCHANGED <<scheduled_animations, running_animations, timers,
                         _animation_in_progress>>]_svars
    /\ [][(RunStep /\ scheduled_animations # <<>>) =>
             \E o \in {Outcomes(scheduled_animations)} :
               \E k \in {FirstError(o)} :
                 \E kept \in {running_animations' \o scheduled_animations'} :
                   /\ escaped' # "TclError"
                   /\ k > Len(o) => placed' = Placeable(collected', alive)
                   /\ Len(kept) = Len(running_animations)
                                      + Len(Producing(o, k - 1))
                                      + (IF k > Len(o) THEN 0 ELSE Len(o) - k)
                   /\ \A i \in DOMAIN o :
                        InFlight(scheduled_animations[i]) =>
                          \E n \in {Len(Producing(o, i))} :
                            /\ i # k
                            /\ o[i].out = "StopIteration" <=>
                                   \/ completed(scheduled_animations[i])
                                   \/ timed_out(scheduled_animations[i])
                            /\ (i < k /\ o[i].out = "frame") =>
                                   /\ kept[Len(running_animations) + n]
                                          = o[i].anim
                                   /\ collected'[n] = o[i].frame
                            /\ i > k =>
                                   kept[Len(kept) - (Len(o) - i)]
                                       = scheduled_animations[i]]_svars

\* a tick found an in-flight animation whose widget had been destroyed,
\* advanced it, collected its frame without placing it, kept the animation
\* queued and arranged the next tick
C19_DestroyedStaysQueued ==
    /\ path = "busy"
    /\ escaped = ""
    /\ timers = 1
    /\ Len(found) = 1
    /\ InFlight(found[1])
    /\ found[1].widget \notin alive
    /\ Len(collected) = 1
    /\ collected[1].frame_number = found[1]._frame_number + 1
    /\ placed = <<>>
    /\ Len(scheduled_animations) = 1
    /\ scheduled_animations[1]._frame_number = found[1]._frame_number + 1

(***************************************************************************)
(* Drain callbacks, checked under RegSpec.                                 *)
(***************************************************************************)
\* the callbacks add_callback() was called with, once or more often
Registered == {cb \in Callbacks : nreg[cb] > 0}

\* C18: _callbacks is the set of the callbacks registered so far, however
\* often each was registered and however many drains have passed; the tick
\* that takes the manager from busy to idle calls each of them exactly once
\* and no other callback, and no other tick calls any.
C18_SetSemantics ==
    /\ [](mgr = "up" => _callbacks = Registered)
    /\ [][(/\ UNCHANGED <<_callbacks, alive>>
           /\ svars' # svars
           /\ Tick)
            => IF _animation_in_progress /\ ~_animation_in_progress'
               THEN fired' = [cb \in Callbacks |->
                                 IF cb \in Registered THEN 1 ELSE 0]
               ELSE fired' = NoneFired]_svars

\* the second drain of a run calls a callback registered MaxRegs times and
\* a callback registered once, once each
C18_SecondDrainFiresOnce ==
    /\ path = "drain"
    /\ ndrain = 2
    /\ \E cb, other \in Callbacks :
           /\ nreg[cb] = MaxRegs
           /\ nreg[other] = 1
           /\ fired[cb] = 1
           /\ fired[other] = 1

(***************************************************************************)
(* Progress of the scheduler, checked under FairSchedSpec.                 *)
(***************************************************************************)
\* only animations with positive target_fps and duration are queued
AllValid ==
    \A a \in Range(scheduled_animations) \cup Range(running_animations) :
        Valid(a)

\* both queues empty and no animation in progress
Idle ==
    /\ scheduled_animations = <<>>
    /\ running_animations = <<>>
    /\ ~_animation_in_progress

\* C14: Eventual drain.  When only valid animations are ever scheduled
\* (finitely many: the callers and the callbacks stop scheduling), the
\* scheduler is eventually idle for good.  The flag falls only in a tick that
\* finds the queue empty and calls every registered callback once, and a tick
\* of the idle scheduler leaves it idle and calls no callback.
C14_EventualDrain ==
    /\ ([]AllValid) => <>[]Idle
    /\ [][(RunStep /\ _animation_in_progress /\ ~_animation_in_progress') =>
             /\ scheduled_animations = <<>>
             /\ fired' = _execute_callbacks(_callbacks)]_svars
    /\ [][(RunStep /\ Idle) => (Idle' /\ fired' = NoneFired)]_svars

\* every animation the run may schedule has been scheduled, advanced until
\* it finished and drained, no tick was lost, and the scheduler has ticked
\* idle since
C14_DrainedAndIdle ==
    /\ Idle
    /\ path = "idle"
    /\ nsched = MaxAnims
    /\ timers = 1
    /\ _callbacks = Callbacks

(***************************************************************************)
(* The busy flag, checked under SchedSpec.                                 *)
(***************************************************************************)
\* C21: Busy/Idle state machine.  _animation_in_progress is false until the
\* manager exists and changes in ticks only.  After a tick it is true
\* exactly when the tick found the queue non-empty, so it rises exactly in
\* ticks that find animations queued, and it falls only in a tick that finds
\* both queues empty with the flag set, which is the tick that runs the
\* drain callbacks.  A tick that finds the queues empty and the flag clear
\* changes no field of the manager, calls no callback, collects and places
\* nothing, and arranges the next tick.
C21_BusyIdleMachine ==
    /\ [](mgr = "new" => ~_animation_in_progress)
    /\ [][_animation_in_progress' # _animation_in_progress => RunStep]_svars
    /\ [][RunStep =>
             /\ _animation_in_progress' = (scheduled_animations # <<>>)
             /\ (_animation_in_progress /\ ~_animation_in_progress') =>
                    /\ scheduled_animations = <<>>
                    /\ running_animations = <<>>
                    /\ path' = "drain"
             /\ (scheduled_animations = <<>> /\ ~_animation_in_progress) =>
                    /\ UNCHANGED <<scheduled_animations, running_animations,
                                   _animation_in_progress, _callbacks>>
                    /\ fired' = NoneFired
                    /\ collected' = <<>>
                    /\ placed' = <<>>
                    /\ timers' = 1
                    /\ path' = "idle"]_svars

\* animations were scheduled, advanced and drained, the callbacks ran, and
\* the tick after the drain found the manager idle and left it so
C21_IdleAfterDrain ==
    /\ path = "idle"
    /\ nsched > 0
    /\ _callbacks # {}
    /\ fired = NoneFired
    /\ ~_animation_in_progress
    /\ scheduled_animations = <<>>
    /\ timers = 1

(***************************************************************************)
(* The stepping rule of the two axes, checked under Spec.                  *)
(***************************************************************************)
\* begin and final are on the diagonal: the two axes have the same travel
Diagonal(a) == a.begin_x = a.begin_y /\ a.final_x = a.final_y

\* C22: Axis symmetry.  The x and the y axis step by the same rule, so
\* every frame produced by a valid animation with begin_x = begin_y and
\* final_x = final_y has x = y, whether the travel is upward or downward.
C22_AxisSymmetry ==
    (pc = "live" /\ Valid(anim) /\ Diagonal(anim) /\ produced > 0) =>
        frame.x = frame.y

\* -1 <= f < 1
InUnitRange(f) == FGe(f, FFromInt(-1)) /\ ~FGe(f, F1)

\* C23: Overflow range.  After every step of a valid animation, and before
\* its first, the overflow accumulator of each axis is at least -1 and
\* below 1.
C23_OverflowRange ==
    (pc = "live" /\ Valid(anim)) =>
        /\ InUnitRange(anim._x_pixel_overflow)
        /\ InUnitRange(anim._y_pixel_overflow)

(***************************************************************************)
(* Positions and counters of the frames, checked under Spec.               *)
(***************************************************************************)
\* n / d truncated toward zero, for d > 0
TruncDiv(n, d) == IF n >= 0 THEN n \div d ELSE -((-n) \div d)

\* ceil(duration / 1000 * target_fps)
CeilFrames(a) == (a.duration * a.target_fps + 999) \div 1000

\* begin + trunc(k * (final - begin) / total_frames), computed exactly and
\* kept between begin and final
LinearPos(begin, final, k, a) ==
    LET Kept(v) == Max2(Min2(begin, final), Min2(v, Max2(begin, final)))
    IN  Kept(begin + TruncDiv(k * (final - begin) * 1000,
                              a.duration * a.target_fps))

\* C24: No rounding drift.  The k-th frame of a valid animation, for k up
\* to ceil(duration / 1000 * target_fps), has on each axis the position
\* begin + trunc(k * (final - begin) / total_frames) kept between begin and
\* final, so it is less than one pixel from the linear position.
C24_NoDrift ==
    (/\ pc = "live" /\ Valid(anim) /\ produced > 0
     /\ produced <= CeilFrames(anim)) =>
        /\ frame.x = LinearPos(anim.begin_x, anim.final_x, produced, anim)
        /\ frame.y = LinearPos(anim.begin_y, anim.final_y, produced, anim)

\* k * 1000 / target_fps as Python computes it: the product is an int
ElapsedAt(k, target_fps) == FDiv(FFromInt(k * 1000), FFromInt(target_fps))

\* C25: Progress counters.  The k-th frame an animation produces has
\* frame_number = k and elapsed = k * 1000 / target_fps.  A call that
\* returns a frame adds 1 to _frame_number and 1000 / target_fps to
\* _elapsed, and _elapsed does not decrease; a call that raises leaves both
\* counters as they are.
C25_ProgressCounters ==
    /\ []((pc = "live" /\ produced > 0) =>
             /\ frame.frame_number = produced
             /\ frame.elapsed = ElapsedAt(produced, anim.target_fps))
    /\ [][pc = "live" =>
             IF out' = "frame"
             THEN /\ anim'._frame_number = anim._frame_number + 1
                  /\ anim'._elapsed =
                         FAdd(anim._elapsed, _frame_time_in_msec(anim))
                  /\ FGe(anim'._elapsed, anim._elapsed)
                  /\ frame'.frame_number = anim'._frame_number
                  /\ frame'.elapsed = anim'._elapsed
             ELSE /\ anim'._frame_number = anim._frame_number
                  /\ anim'._elapsed = anim._elapsed]_avars

\* C26: Final-frame flag.  Every frame has final_frame true exactly when
\* its x and y are final_x and final_y, the position after the update that
\* produced it.  So at most one frame of an animation has final_frame true,
\* it is the last one produced, and every call after it raises
\* StopIteration and produces nothing.
C26_FinalFrameFlag ==
    /\ []((pc = "live" /\ produced > 0) =>
             /\ frame.x = anim._x
             /\ frame.y = anim._y
             /\ frame.final_frame =
                    (frame.x = anim.final_x /\ frame.y = anim.final_y)
             /\ produced - nonfinal = (IF frame.final_frame THEN 1 ELSE 0))
    /\ [](pc = "live" /\ produced = 0 => nonfinal = 0)
    /\ [][(pc = "live" /\ produced > 0 /\ frame.final_frame) =>
             /\ out' = "StopIteration"
             /\ produced' = produced
             /\ frame' = frame]_avars

\* an animation produced several frames, the last of them the only one with
\* final_frame true, and the call after it raised StopIteration
C26_StoppedAfterFinalFrame ==
    /\ pc = "live"
    /\ produced > 2
    /\ nonfinal = produced - 1
    /\ frame.final_frame
    /\ frame.x # anim.begin_x
    /\ frame.y # anim.begin_y
    /\ out = "StopIteration"
    /\ stops = 1

\* C27: Stationary axis.  On an axis with begin = final the position of
\* the animation is the begin value in every state and in every frame, and
\* the overflow accumulator of that axis stays 0, whatever the other axis
\* does.
C27_StationaryAxis ==
    pc = "live" =>
        /\ anim.begin_x = anim.final_x =>
               /\ anim._x = anim.begin_x
               /\ FIsZero(anim._x_pixel_overflow)
               /\ produced > 0 => frame.x = anim.begin_x
        /\ anim.begin_y = anim.final_y =>
               /\ anim._y = anim.begin_y
               /\ FIsZero(anim._y_pixel_overflow)
               /\ produced > 0 => frame.y = anim.begin_y

\* an animation that moves along x only has produced frames, carried
\* pixels on x and kept a non-zero x overflow, with y where it began
C27_MovedAlongOneAxis ==
    /\ pc = "live"
    /\ anim.begin_y = anim.final_y
    /\ anim.begin_x # anim.final_x
    /\ produced > 1
    /\ frame.x # anim.begin_x
    /\ ~FIsZero(anim._x_pixel_overflow)
    /\ frame.y = anim.begin_y
    /\ FIsZero(anim._y_pixel_overflow)

(***************************************************************************)
(* Drain callbacks that raise, checked under FaultSpec.                    *)
(***************************************************************************)
\* C28: Drain completeness under a failing callback.  The tick that takes
\* the manager from busy to idle calls every registered callback exactly
\* once and arranges the next tick, whether or not a callback raises.
C28_DrainCompleteness ==
    [][(/\ HostTick
        /\ _animation_in_progress
        /\ ~_animation_in_progress') =>
           /\ fired' = [cb \in Callbacks |->
                            IF cb \in _callbacks THEN 1 ELSE 0]
           /\ timers' = 1]_svars

(***************************************************************************)
(* Destroyed targets and the end of an animation, checked under SchedSpec. *)
(***************************************************************************)
\* C29: Weak target ownership.  A tick leaves no animation queued whose
\* widget has been destroyed, so that once a widget is gone no later tick
\* finds an animation for it in either queue.
C29_WeakOwnership ==
    [][RunStep =>
          \A a \in Range(scheduled_animations') \cup
                      Range(running_animations') : a.widget \in alive]_svars

\* the animation has produced its final frame: it is in flight and at its
\* target
Finished(a) == InFlight(a) /\ completed(a)

\* C30: Drain latency.  An animation whose frame in a tick is its final
\* frame is still queued after that tick, at its place among the survivors.
\* The next tick finds it finished, drops it and collects no frame for it.
\* No tick that finds animations queued calls a callback.  When that tick
\* found nothing but finished animations, it leaves the queue empty, places
\* nothing and leaves the flag set; with nothing scheduled before the tick
\* after it, that one is the drain tick: it calls every registered callback
\* once and places nothing.  No tick that finds the queue empty places
\* anything.
C30_DrainLatency ==
    /\ [][(RunStep /\ scheduled_animations # <<>>) =>
             \E o \in {Outcomes(scheduled_animations)} :
               \E k \in {FirstError(o)} :
                 \E kept \in {running_animations' \o scheduled_animations'} :
                   /\ \A i \in 1..(k - 1) :
                        /\ (o[i].out = "frame" /\ o[i].frame.final_frame) =>
                              /\ Finished(o[i].anim)
                              /\ Len(kept) >= Len(running_animations)
                                                 + Len(Producing(o, i))
                              /\ kept[Len(running_animations)
                                        + Len(Producing(o, i))] = o[i].anim
                        /\ Finished(scheduled_animations[i]) =>
                              o[i] = StopIteration(scheduled_animations[i])
                   /\ Len(collected') = Len(Producing(o, k - 1))
                   /\ fired' = NoneFired
                   /\ (\A a \in Range(scheduled_animations) : Finished(a)) =>
                         /\ scheduled_animations' = <<>>
                         /\ collected' = <<>>
                         /\ placed' = <<>>
                         /\ fired' = NoneFired
                         /\ _animation_in_progress'
                         /\ path' = "busy"
                         /\ timers' = 1]_svars
    /\ [][(RunStep /\ scheduled_animations = <<>>) =>
             /\ placed' = <<>>
             /\ (/\ path = "busy"
                 /\ found # <<>>
                 /\ \A a \in Range(found) : Finished(a)) =>
                    /\ path' = "drain"
                    /\ fired' = [cb \in Callbacks |->
                                     IF cb \in _callbacks THEN 1 ELSE 0]
                    /\ ~_animation_in_progress']_svars

\* the tick after the one in which the last queued animation produced its
\* final frame: it found the animation finished after several frames,
\* dropped it, placed nothing and called none of the registered callbacks
C30_DroppedBeforeDrain ==
    /\ path = "busy"
    /\ Len(found) = 1
    /\ Finished(found[1])
    /\ found[1]._frame_number > 1
    /\ scheduled_animations = <<>>
    /\ collected = <<>>
    /\ placed = <<>>
    /\ _callbacks # {}
    /\ fired = NoneFired
    /\ _animation_in_progress
    /\ timers = 1

(***************************************************************************)
(* What a call changes in the animation, checked under Spec.               *)
(***************************************************************************)
\* the constructor arguments as the object keeps them
Inputs(a) ==
    <<a.widget, a.parent_widget, a.begin_x, a.begin_y, a.final_x, a.final_y,
      a.target_fps, a.duration>>

\* C33: Completed leaves state unchanged.  A call of send() that raises
\* StopIteration, because the target is reached or because _elapsed is
\* above duration + 1000, changes no field of the animation: position,
\* _frame_number, _elapsed and both overflow accumulators are what they
\* were before the call.  No call of send() changes widget, parent_widget,
\* begin, final, target_fps or duration.
C33_CompletedChangesNothing ==
    [][pc = "live" =>
          /\ Inputs(anim') = Inputs(anim)
          /\ (completed(anim) \/ timed_out(anim)) =>
                 /\ out' = "StopIteration"
                 /\ anim' = anim
          /\ out' = "StopIteration" =>
                 /\ completed(anim) \/ timed_out(anim)
                 /\ anim'._x = anim._x
                 /\ anim'._y = anim._y
                 /\ anim'._frame_number = anim._frame_number
                 /\ anim'._elapsed = anim._elapsed
                 /\ anim'._x_pixel_overflow = anim._x_pixel_overflow
                 /\ anim'._y_pixel_overflow = anim._y_pixel_overflow]_avars

\* a valid animation that never reached its target was stopped by the
\* timeout, with overflow left in an accumulator, and the call that raised
\* left the object as it was
C33_TimedOutUnchanged ==
    /\ pc = "live"
    /\ Valid(anim)
    /\ out = "StopIteration"
    /\ produced > 0
    /\ ~completed(anim)
    /\ timed_out(anim)
    /\ ~FIsZero(anim._x_pixel_overflow)
    /\ prev = anim

\* from position v to position w is no step away from final, given begin
Toward(v, w, begin, final) ==
    /\ final >= begin => w >= v
    /\ final <= begin => w <= v

\* C32: Monotone travel.  Every frame of an animation has each axis where
\* the frame before had it or nearer to the target, and the first frame
\* where the animation began or nearer: x never decreases when
\* final_x >= begin_x and never increases when final_x <= begin_x, and
\* likewise y, also once the axis is at its target.
C32_MonotoneTravel ==
    [][(pc = "live" /\ out' = "frame") =>
          /\ frame'.x = anim'._x
          /\ frame'.y = anim'._y
          /\ Toward(anim._x, anim'._x, anim.begin_x, anim.final_x)
          /\ Toward(anim._y, anim'._y, anim.begin_y, anim.final_y)
          /\ produced > 0 =>
                 /\ Toward(frame.x, frame'.x, anim.begin_x, anim.final_x)
                 /\ Toward(frame.y, frame'.y, anim.begin_y, anim.final_y)]_avars

\* the y axis of a valid animation was at its target, the step would have
\* taken it beyond, and the frame has it at the target still, x being short
C32_HeldAtTarget ==
    /\ pc = "live"
    /\ Valid(anim)
    /\ out = "frame"
    /\ produced > 1
    /\ anim.begin_y # anim.final_y
    /\ prev._y = anim.final_y
    /\ _y_frame_delta(prev).pixels # 0
    /\ frame.y = anim.final_y
    /\ ~completed(anim)

(***************************************************************************)
(* Two animations of one widget, as a caller gets them by moving the same  *)
(* list item again while its animation is still running.                   *)
(***************************************************************************)
\* (target_fps, duration) of the animations AnimatedList builds: one valid
\* pair for all of them
MoveTimings == (1..MaxFps) \X DurationSet

\* item.winfo_y(): where the last placement left the item, which is where
\* the last animation queued for it is now (0 before anything has moved it)
winfo_y ==
    IF scheduled_animations = <<>> THEN 0
    ELSE scheduled_animations[Len(scheduled_animations)]._y

\* AnimatedList._move_items_animated((i,)) with the item to go dy pixels
\* from where it is: one animation handed to the manager; the item is
\* moved again only while it is still being animated
_move_items_animated(dy, t) ==
    /\ scheduled_animations = <<>> => nsched = 0
    /\ scheduled_animations # <<>> =>
           /\ t[1] = scheduled_animations[1].target_fps
           /\ t[2] = scheduled_animations[1].duration
    /\ schedule_animations(<<WidgetAnimation(1, ParentWidget, 0, winfo_y,
                                              0, winfo_y + dy, t[1], t[2])>>)

ShareNext ==
    \/ /\ NewManager
       /\ UNCHANGED <<avars, rvars, cvars, fvars>>
    \/ /\ \E dy \in DistDomain, t \in MoveTimings :
             _move_items_animated(dy, t)
       /\ UNCHANGED <<avars, rvars, cvars, fvars>>
    \/ /\ Tick
       /\ UNCHANGED <<avars, rvars, cvars, fvars>>

ShareSpec == Init /\ [][ShareNext]_vars

\* the animation reaches its target within n more frames
RECURSIVE Reaches(_, _)
Reaches(a, n) ==
    LET Go(r) == r.out = "frame" /\ Reaches(r.anim, n - 1)
    IN  IF completed(a) THEN TRUE
        ELSE IF n = 0 THEN FALSE
        ELSE Go(next(a))

Converging(a) == Reaches(a, FrameCap)

SharedTarget(a, b) ==
    /\ a.widget = b.widget
    /\ a.target_fps = b.target_fps
    /\ a.duration = b.duration
    /\ Converging(a)
    /\ Converging(b)

\* what the tick that found a ahead of b in the queue did with the two
LastWriter(ra, rb, b) ==
    /\ (ra.out = "frame" /\ rb.out = "frame") =>
           \E m, n \in DOMAIN placed :
               /\ m < n
               /\ placed[m] = ra.frame
               /\ placed[n] = rb.frame
    /\ (rb.out = "frame" /\ rb.frame.final_frame) =>
           /\ rb.frame.x = b.final_x
           /\ rb.frame.y = b.final_y
           /\ ~(ra.out = "frame" /\ ~ra.frame.final_frame)

\* C31: Last writer wins for a shared target.  When a tick finds two
\* converging animations of the same widget with the same target_fps and
\* duration in the queue, A ahead of B, and both produce a frame, B's frame
\* is placed after A's; and when B's frame is its final frame, it is at
\* (final_x, final_y) of B and A has no frame left to place after it.
C31_LastWriterWins ==
    \A i, j \in DOMAIN found :
        (i < j /\ SharedTarget(found[i], found[j])) =>
            LastWriter(next(found[i]), next(found[j]), found[j])

====
